---------------------------- MODULE Spec2Model ----------------------------
(***************************************************************************)
(* A model of py-sikulix: the multi-point colour finder                    *)
(* (extend/finder.py), the Region methods that poll the remote engine      *)
(* (region.py), the loading of the package's modules, the wrappers that    *)
(* forward calls to the remote engine (client.py, region.py, settings.py)  *)
(* and the gateway launcher (gateway.py).                                  *)
(*                                                                         *)
(* Conventions.  A string that the code splits on ',' and '|' is held in   *)
(* its split form: a sequence of entries, each a sequence of tokens, each  *)
(* a sequence of one-character strings.  Scores are exact rationals with   *)
(* the common denominator 765 = 255 * 3; the code computes them in         *)
(* floating point.  Absent values (Python's None) are records whose        *)
(* "some" field is FALSE.                                                  *)
(***************************************************************************)
EXTENDS Integers, Sequences, FiniteSets, TLC

\* ------------------------------------------------------------------ bounds
ScreenW == 2
ScreenH == 1
MaxSub == 2
\* Region.wait: time in tenths of a second
MaxTimeout == 4
MaxFindTime == 1
MaxOversleep == 1
\* import statements one process executes
MaxImports == 4
\* calls a program makes on the wrappers, one after the other
MaxOps == 3
\* command-line invocations alive at once, gateway processes alive at once
MaxInv == 2
MaxProcs == 2
\* Match scores are the steps 0..MaxScore of the range 0.0-1.0
MaxScore == 2

\* ------------------------------------------------------- program constants
ScoreUnit == 765
ChannelMax == 255
\* time.sleep(0.2), in tenths of a second
SleepTime == 2

VARIABLES
    \* inputs of find_multi_color
    color_str, similarity, region, caller, self_rect, screen,
    \* CrossPlatformFinder.find_multi_color locals
    pc, exc, colors, rect, frame, grabs, cands, kernel_calls, fret,
    \* _numba_kernel locals
    main_i, sub_i, match_score_sum, offs, last_read, kret,
    \* Region.find_multi_color result
    match,
    \* Region.wait / Region.wait_vanish: arguments, clock and locals
    w_op, w_target, w_timeout, w_pc, w_clock, w_start, w_attempts, w_last, w_ret, w_exc,
    \* the interpreter loading the package: sys.modules, the module
    \* namespaces, the stack of module bodies being executed
    i_target, i_attempts, i_status, i_ns, i_stack, i_exc,
    \* the wrappers over the remote engine: reachability of the gateway,
    \* the global client, Setting._throw_exception, and the last call a
    \* program made: its arguments, the remote calls it issued, its outcome
    o_gateway, o_cli, o_constructed, o_throw, o_op, o_calls, o_ret, o_exc, o_n,
    \* the gateway launcher: command-line invocations and gateway processes
    g_inv, g_procs,
    \* two objects and the results of the comparisons made of them so far
    m_a, m_b, m_res

finderInputs == <<color_str, similarity, caller, self_rect, screen>>
finderLocals == <<exc, colors, rect, frame, grabs, cands, kernel_calls, fret>>
kernelLocals == <<main_i, sub_i, match_score_sum, offs, last_read, kret>>
finderVars == <<finderInputs, region, pc, finderLocals, kernelLocals, match>>
waitVars == <<w_op, w_target, w_timeout, w_pc, w_clock, w_start, w_attempts, w_last,
              w_ret, w_exc>>
importVars == <<i_target, i_attempts, i_status, i_ns, i_stack, i_exc>>
opsVars == <<o_gateway, o_cli, o_constructed, o_throw, o_op, o_calls, o_ret, o_exc, o_n>>
gwVars == <<g_inv, g_procs>>
matchVars == <<m_a, m_b, m_res>>
vars == <<finderVars, waitVars, importVars, opsVars, gwVars, matchVars>>

\* ------------------------------------------------------------- arithmetic
Min(a, b) == IF a < b THEN a ELSE b
Max(a, b) == IF a > b THEN a ELSE b
Abs(a) == IF a < 0 THEN -a ELSE a

\* ------------------------------------------------------ Python primitives
Digits == <<"0", "1", "2", "3", "4", "5", "6", "7", "8", "9",
            "a", "b", "c", "d", "e", "f">>
IsDigit(c, base) == \E i \in 1..base : Digits[i] = c
DigitVal(c) == (CHOOSE i \in 1..16 : Digits[i] = c) - 1

RECURSIVE DigitsVal(_, _)
DigitsVal(s, base) ==
    IF s = <<>> THEN 0
    ELSE DigitsVal(SubSeq(s, 1, Len(s) - 1), base) * base + DigitVal(s[Len(s)])

\* int(s, base): an optional sign, then one or more digits of the base;
\* anything else raises ValueError (ok = FALSE).
PyInt(s, base) ==
    LET signed == Len(s) > 0 /\ s[1] \in {"-", "+"}
        body == IF signed THEN Tail(s) ELSE s
        good == Len(body) > 0 /\ \A i \in 1..Len(body) : IsDigit(body[i], base)
        mag == IF good THEN DigitsVal(body, base) ELSE 0
    IN [ok |-> good, v |-> IF signed /\ s[1] = "-" THEN -mag ELSE mag]

\* s[a:b] for 0 <= a <= b: the slice is cut at the end of s.
PySlice(s, a, b) == SubSeq(s, a + 1, Min(b, Len(s)))

\* np.clip(v, lo, hi)
Clip(v, lo, hi) == Min(Max(v, lo), hi)

\* ndarray.astype(np.uint8)
AsUint8(v) == v % 256

\* ------------------------------------------------ CrossPlatformFinder
_rgb_to_bgr(hex_str) ==
    LET b == PyInt(PySlice(hex_str, 4, 6), 16)
        g == PyInt(PySlice(hex_str, 2, 4), 16)
        r == PyInt(PySlice(hex_str, 0, 2), 16)
    IN [ok |-> b.ok /\ g.ok /\ r.ok, v |-> <<b.v, g.v, r.v>>]

ZeroBias == <<0, 0, 0>>

\* One offset entry of the colour string: skipped, a raised ValueError
\* (from _rgb_to_bgr), or a sample point
\* <<offset_x, offset_y, B, G, R, bias_B, bias_G, bias_R>>.
ParseSub(parts) ==
    LET ox == PyInt(parts[1], 10)
        oy == PyInt(parts[2], 10)
        bgr == _rgb_to_bgr(parts[3])
        hasBias == Len(parts) >= 4 /\ Len(parts[4]) = 6
        bias == IF hasBias THEN _rgb_to_bgr(parts[4]) ELSE [ok |-> TRUE, v |-> ZeroBias]
    IN IF Len(parts) < 2 THEN [kind |-> "skip", v |-> <<>>]
       ELSE IF ~ox.ok \/ ~oy.ok THEN [kind |-> "skip", v |-> <<>>]
       ELSE IF Len(parts) < 3 THEN [kind |-> "skip", v |-> <<>>]
       ELSE IF Len(parts[3]) # 6 THEN [kind |-> "skip", v |-> <<>>]
       ELSE IF ~bgr.ok THEN [kind |-> "raise", v |-> <<>>]
       ELSE IF ~bias.ok THEN [kind |-> "raise", v |-> <<>>]
       ELSE [kind |-> "point", v |-> <<ox.v, oy.v>> \o bgr.v \o bias.v]

RECURSIVE ParseSubs(_)
ParseSubs(entries) ==
    IF entries = <<>> THEN [raised |-> FALSE, pts |-> <<>>]
    ELSE LET one == ParseSub(Head(entries))
             rest == ParseSubs(Tail(entries))
         IN IF one.kind = "raise" \/ rest.raised THEN [raised |-> TRUE, pts |-> <<>>]
            ELSE IF one.kind = "skip" THEN rest
            ELSE [raised |-> FALSE, pts |-> <<one.v>> \o rest.pts]

NoColors == [raised |-> FALSE, main_bgr |-> ZeroBias, main_bias |-> ZeroBias,
             sub_colors |-> <<>>]

\* str.split never returns an empty list, so the "not colors_list" return
\* of None is dead; a ValueError of _rgb_to_bgr leaves through the caller.
_parse_config(cs) ==
    LET main_part == cs[1]
        main_bgr == _rgb_to_bgr(main_part[1])
        main_bias == IF Len(main_part) > 1 THEN _rgb_to_bgr(main_part[2])
                     ELSE [ok |-> TRUE, v |-> ZeroBias]
        subs == ParseSubs(Tail(cs))
    IN IF ~main_bgr.ok \/ ~main_bias.ok \/ subs.raised
       THEN [NoColors EXCEPT !.raised = TRUE]
       ELSE [raised |-> FALSE, main_bgr |-> main_bgr.v, main_bias |-> main_bias.v,
             sub_colors |-> subs.pts]

\* Mutant: the test of the sample-point array left out.
FmcInvalidNever(c) == FALSE

\* "if not colors or len(colors[2]) == 0": the tuple _parse_config returns
\* is never falsy, so the test is that of the sample-point array.
FmcInvalid(c) == Len(c.sub_colors) = 0

\* The capture area chosen from the region argument (None and the empty
\* sequence are both <<>>).
NoRect == [ok |-> FALSE, left |-> 0, top |-> 0, width |-> 0, height |-> 0]
\* Mutant: only exactly four values taken as a full rectangle.
FmcRectExactlyFour(rg) ==
    IF Len(rg) = 0
    THEN [ok |-> TRUE, left |-> 0, top |-> 0, width |-> ScreenW, height |-> ScreenH]
    ELSE IF Len(rg) = 4
    THEN [ok |-> TRUE, left |-> rg[1], top |-> rg[2], width |-> rg[3], height |-> rg[4]]
    ELSE IF Len(rg) >= 2
    THEN [ok |-> TRUE, left |-> rg[1], top |-> rg[2],
          width |-> ScreenW - rg[1], height |-> ScreenH - rg[2]]
    ELSE NoRect

FmcRect(rg) ==
    IF Len(rg) = 0
    THEN [ok |-> TRUE, left |-> 0, top |-> 0, width |-> ScreenW, height |-> ScreenH]
    ELSE IF Len(rg) >= 4
    THEN [ok |-> TRUE, left |-> rg[1], top |-> rg[2], width |-> rg[3], height |-> rg[4]]
    ELSE IF Len(rg) >= 2
    THEN [ok |-> TRUE, left |-> rg[1], top |-> rg[2],
          width |-> ScreenW - rg[1], height |-> ScreenH - rg[2]]
    ELSE NoRect

\* Pixel coordinates <<y, x>> of an area of w columns and h rows.
Coords(w, h) == (0..(h - 1)) \X (0..(w - 1))

\* mss grab + np.array: the frame of shape (height, width), BGR(A).
NoFrame == [w |-> 0, h |-> 0, px |-> [p \in {} |-> ZeroBias]]
Grab(scr, r) ==
    [w |-> r.width, h |-> r.height,
     px |-> [p \in Coords(r.width, r.height) |-> scr[<<p[1] + r.top, p[2] + r.left>>]]]

Lower(c) == [ch \in 1..3 |-> AsUint8(Clip(c.main_bgr[ch] - c.main_bias[ch], 0, ChannelMax))]
\* Mutant: the sum cast to uint8 without np.clip.
UpperNoClip(c) == [ch \in 1..3 |-> AsUint8(c.main_bgr[ch] + c.main_bias[ch])]
Upper(c) == [ch \in 1..3 |-> AsUint8(Clip(c.main_bgr[ch] + c.main_bias[ch], 0, ChannelMax))]

\* cv2.inRange: every channel within the inclusive bounds.
InRange(pix, lower, upper) == \A ch \in 1..3 : lower[ch] <= pix[ch] /\ pix[ch] <= upper[ch]

\* Mutant: the positions in the reverse order.
RowMajorReversed(w, h) ==
    [k \in 1..(w * h) |-> <<(w * h - k) \div w, (w * h - k) % w>>]

\* np.where(mask): the positions of the mask in row-major order.
RowMajor(w, h) == [k \in 1..(w * h) |-> <<(k - 1) \div w, (k - 1) % w>>]
Candidates(f, c) ==
    LET IsCand(p) == InRange(f.px[p], Lower(c), Upper(c))
    IN SelectSeq(RowMajor(f.w, f.h), IsCand)

\* "(ret[0] + left, ret[1] + top, ret[2], ret[3]), ret[4]"
NoResult == [some |-> FALSE, x |-> 0, y |-> 0, w |-> 0, h |-> 0, sim |-> <<0, 1>>]
\* Mutant: left added to both coordinates.
TranslateLeftOnly(k, r) ==
    [some |-> TRUE, x |-> k.x + r.left, y |-> k.y + r.left, w |-> k.w, h |-> k.h,
     sim |-> k.sim]
Translate(k, r) ==
    [some |-> TRUE, x |-> k.x + r.left, y |-> k.y + r.top, w |-> k.w, h |-> k.h,
     sim |-> k.sim]

\* ------------------------------------------------------- _numba_kernel
NoKernelResult == [some |-> FALSE, x |-> 0, y |-> 0, w |-> 0, h |-> 0,
                   sim |-> <<0, 1>>, rgb |-> ZeroBias]
\* Mutant: the largest x offset starts at 1.
ZeroOffsShifted == [max_x |-> 1, min_x |-> 0, max_y |-> 0, min_y |-> 0]

\* "max_offset_x = 0; min_offset_x = 0; max_offset_y = 0; min_offset_y = 0"
ZeroOffs == [max_x |-> 0, min_x |-> 0, max_y |-> 0, min_y |-> 0]
NoRead == <<>>

\* Mutant: the extrema updated only by sample points right of or below
\* the anchor.
UpdateOffsMaxOnly(o, offset_x, offset_y) ==
    [max_x |-> Max(o.max_x, offset_x), min_x |-> o.min_x,
     max_y |-> Max(o.max_y, offset_y), min_y |-> o.min_y]

\* "max_offset_x = max(max_offset_x, offset_x)" and the three lines after it
UpdateOffs(o, offset_x, offset_y) ==
    [max_x |-> Max(o.max_x, offset_x), min_x |-> Min(o.min_x, offset_x),
     max_y |-> Max(o.max_y, offset_y), min_y |-> Min(o.min_y, offset_y)]

\* Mutant: only the upper bounds tested.
InFrameUpperOnly(x, y, w, h) == x < w /\ y < h

\* "0 <= sub_x < w and 0 <= sub_y < h"
InFrame(x, y, w, h) == 0 <= x /\ x < w /\ 0 <= y /\ y < h

\* An array index as the compiled kernel resolves it: a negative index
\* counts from the end.
WrapIndex(i, n) == IF i < 0 THEN i + n ELSE i

\* image[y, x, 0..2]
ImageAt(f, y, x) == f.px[<<WrapIndex(y, f.h), WrapIndex(x, f.w)>>]

\* Mutant: a matching sample point counted as 1 whatever its difference.
ContributionFlat(pix, s) ==
    IF /\ Abs(pix[1] - s[3]) <= s[6]
       /\ Abs(pix[2] - s[4]) <= s[7]
       /\ Abs(pix[3] - s[5]) <= s[8]
    THEN ScoreUnit
    ELSE 0

\* What one sample point in the frame adds to match_score_sum, in units
\* of 1/765.
Contribution(pix, s) ==
    LET abs_b == Abs(pix[1] - s[3])
        abs_g == Abs(pix[2] - s[4])
        abs_r == Abs(pix[3] - s[5])
    IN IF abs_b <= s[6] /\ abs_g <= s[7] /\ abs_r <= s[8]
       THEN ScoreUnit - (abs_b + abs_g + abs_r)
       ELSE 0

\* Mutant: the sample points still to come left out of the test.
EarlyExitNoRemainder(sum, n, i, t) == sum * t[2] < ScoreUnit * (n + 1) * t[1]

\* "match_score_sum + (len_sub_colors - sub_i - 1) < min_similarity_score",
\* where min_similarity_score = total_points * similarity_threshold.
EarlyExit(sum, n, i, t) ==
    (sum + ScoreUnit * (n - i - 1)) * t[2] < ScoreUnit * (n + 1) * t[1]

\* Mutant: the sum divided by the number of sample points, anchor left out.
BelowThresholdNoAnchor(sum, n, t) == sum * t[2] < ScoreUnit * n * t[1]

\* "similarity < similarity_threshold", similarity = sum / total_points.
BelowThreshold(sum, n, t) == sum * t[2] < ScoreUnit * (n + 1) * t[1]

NumSub == Len(colors.sub_colors)

CurCand == cands[main_i + 1]

\* ----------------------------------------------------------------- inputs
White == <<255, 255, 255>>
Near == <<252, 251, 250>>
Palette == {White, Near}
Screens == [Coords(ScreenW, ScreenH) -> Palette]

Tff == <<"f", "f", "f", "f", "f", "f">>
Tnear == <<"f", "a", "f", "b", "f", "c">>
T08 == <<"0", "8", "0", "8", "0", "8">>
Tzz == <<"z", "z", "z", "z", "z", "z">>
Tone == <<"1">>
Tzero == <<"0">>
Tminus == <<"-", "1">>

\* "1|0|ffffff|080808", "-1|0|fafbfc", "0|1|ffffff|08"
ValidEntries == {<<Tone, Tzero, Tff, T08>>, <<Tminus, Tzero, Tnear>>,
                 <<Tzero, Tone, Tff, <<"0", "8">>>>}
\* "", "3", "z|1|ffffff", "1|0", "1|0|fff", "1|0|zzzzzz", "1|0|ffffff|zzzzzz"
MalformedEntries == {<< <<>> >>, << <<"3">> >>, << <<"z">>, Tone, Tff >>,
                     <<Tone, Tzero>>, <<Tone, Tzero, <<"f", "f", "f">>>>,
                     <<Tone, Tzero, Tzz>>, <<Tone, Tzero, Tff, Tzz>>}
\* "ffffff", "ffffff|080808"
Mains == {<<Tff>>, <<Tff, T08>>}
\* "", "fff", "ffffff|08"
MalformedMains == {<< <<>> >>, << <<"f", "f", "f">> >>, <<Tff, <<"0", "8">>>>}

SeqsUpTo(S, n) == UNION {[1..k -> S] : k \in 0..n}
KernelStrings == {<<m>> \o t : m \in Mains, t \in SeqsUpTo(ValidEntries, MaxSub)}
ParseStrings ==
    {<<m>> \o t : m \in Mains \cup MalformedMains,
                  t \in SeqsUpTo(ValidEntries \cup MalformedEntries, MaxSub)}

\* similarity thresholds <<numerator, denominator>>: 0.5, 0.7, 1.0
Thresholds == {<<1, 2>>, <<7, 10>>, <<1, 1>>}

\* region arguments of a direct call, and the rectangles of a Region object
Regions == {<<>>, <<1, 0>>}
ParseRegions == {<<>>, <<1>>, <<1, 0, 1>>, <<0, 0, 1, 1, 7>>}
SelfRects == {<<0, 0, 2, 1>>, <<1, 0, 1, 1>>}
WhiteScreen == [p \in Coords(ScreenW, ScreenH) |-> White]

\* The parts of the program a specification does not exercise stay idle.
\* No call on the wrappers has been made: no client, no remote call.
NoOp == [name |-> "none", psmrl |-> "None", arg |-> "None"]
Pending == [kind |-> "pending", val |-> 0]
IdleOps ==
    /\ o_gateway = "down" /\ o_cli = 0 /\ o_constructed = 0 /\ o_throw = FALSE
    /\ o_op = NoOp /\ o_calls = <<>> /\ o_ret = Pending /\ o_exc = "none" /\ o_n = 0

\* A launcher as SikuliXGateway.__init__ leaves it, inside an invocation of
\* the given command at the given position: no process handle, no jar path;
\* ret is what start() returned, connected what test_connection() returned
\* inside start.  An invocation that has ended has no launcher any more.
Launcher(cmd, at) ==
    [cmd |-> cmd, pc |-> at, gateway_process |-> 0, jar |-> FALSE, ret |-> "none",
     connected |-> "untested"]
NoInv == Launcher("none", "none")
\* No command line has been run and no gateway process exists.
IdleGw ==
    /\ g_inv = [i \in 1..MaxInv |-> NoInv]
    /\ g_procs = [p \in 1..MaxProcs |-> "none"]

\* A Python float: a number, here an integer step, or NaN.
Float(n) == [nan |-> FALSE, val |-> n]
NaN == [nan |-> TRUE, val |-> 0]
\* The comparisons a Match defines.
CompareOps == {"lt", "le", "gt", "ge", "eq"}
Unset == "unset"
\* No objects are being compared.
NoObject == [cls |-> "none", score |-> Float(0)]
IdleMatch ==
    /\ m_a = NoObject /\ m_b = NoObject
    /\ m_res = [op \in CompareOps |-> Unset]

IdleWait ==
    /\ w_op = "none" /\ w_target = "none" /\ w_timeout = 0 /\ w_pc = "idle"
    /\ w_clock = 0 /\ w_start = 0 /\ w_attempts = 0 /\ w_last = "none"
    /\ w_ret = "pending" /\ w_exc = "none"

IdleImport ==
    /\ i_target = "none" /\ i_attempts = 0 /\ i_status = [m \in {} |-> "unloaded"]
    /\ i_ns = [m \in {} |-> {}] /\ i_stack = <<>> /\ i_exc = "none"

InitFinderLocals ==
    /\ exc = "none"
    /\ colors = NoColors
    /\ rect = NoRect
    /\ frame = NoFrame
    /\ grabs = 0
    /\ cands = <<>>
    /\ kernel_calls = 0
    /\ fret = NoResult
    /\ main_i = 0
    /\ sub_i = 0
    /\ match_score_sum = 0
    /\ offs = ZeroOffs
    /\ last_read = NoRead
    /\ kret = NoKernelResult
    /\ match = NoResult

InitFinder ==
    /\ \/ /\ color_str \in KernelStrings
          /\ similarity \in Thresholds
          /\ screen \in Screens
          /\ \/ caller = "finder" /\ region \in Regions /\ self_rect = <<0, 0, 0, 0>>
             \/ caller = "region" /\ region = <<>> /\ self_rect \in SelfRects
       \/ /\ color_str \in ParseStrings
          /\ similarity = <<7, 10>>
          /\ screen = WhiteScreen
          /\ caller = "finder" /\ region \in ParseRegions /\ self_rect = <<0, 0, 0, 0>>
    /\ pc = IF caller = "region" THEN "region_call" ELSE "start"
    /\ InitFinderLocals
    /\ IdleWait
    /\ IdleImport
    /\ IdleOps
    /\ IdleGw
    /\ IdleMatch

\* ------------------------------------------------ Region.find_multi_color
\* "finder.find_multi_color(color_str, similarity, (self.x, self.y, self.w, self.h))"
RegionFindMultiColor ==
    /\ pc = "region_call"
    /\ region' = self_rect
    /\ pc' = "start"
    /\ UNCHANGED <<waitVars, importVars, opsVars, gwVars, matchVars>>
    /\ UNCHANGED <<finderInputs, finderLocals, kernelLocals, match>>

\* ------------------------------- CrossPlatformFinder.find_multi_color
FmcParse ==
    /\ pc = "start"
    /\ LET c == _parse_config(color_str)
       IN IF c.raised \/ FmcInvalid(c)
          THEN /\ exc' = "ValueError"
               /\ pc' = "raised"
               /\ UNCHANGED colors
          ELSE /\ colors' = c
               /\ pc' = "region"
               /\ UNCHANGED exc
    /\ UNCHANGED <<waitVars, importVars, opsVars, gwVars, matchVars>>
    /\ UNCHANGED <<finderInputs, region, rect, frame, grabs, cands, kernel_calls, fret,
                   kernelLocals, match>>

FmcRegion ==
    /\ pc = "region"
    /\ LET r == FmcRect(region)
       IN IF r.ok
          THEN /\ rect' = r
               /\ pc' = "grab"
               /\ UNCHANGED exc
          ELSE /\ exc' = "ValueError"
               /\ pc' = "raised"
               /\ UNCHANGED rect
    /\ UNCHANGED <<waitVars, importVars, opsVars, gwVars, matchVars>>
    /\ UNCHANGED <<finderInputs, region, colors, frame, grabs, cands, kernel_calls, fret,
                   kernelLocals, match>>

FmcGrab ==
    /\ pc = "grab"
    /\ frame' = Grab(screen, rect)
    /\ grabs' = grabs + 1
    /\ pc' = "mask"
    /\ UNCHANGED <<waitVars, importVars, opsVars, gwVars, matchVars>>
    /\ UNCHANGED <<finderInputs, region, exc, colors, rect, cands, kernel_calls, fret,
                   kernelLocals, match>>

\* inRange, np.where, the "len(y_cands) == 0" return and the kernel's entry
\* (its lines up to the candidate loop).
FmcMask ==
    /\ pc = "mask"
    /\ cands' = Candidates(frame, colors)
    /\ IF Len(cands') = 0
       THEN /\ fret' = NoResult
            /\ pc' = IF caller = "region" THEN "wrap" ELSE "returned"
            /\ UNCHANGED kernel_calls
       ELSE /\ kernel_calls' = kernel_calls + 1
            /\ pc' = "cand"
            /\ UNCHANGED fret
    /\ UNCHANGED <<waitVars, importVars, opsVars, gwVars, matchVars>>
    /\ UNCHANGED <<finderInputs, region, exc, colors, rect, frame, grabs, kernelLocals,
                   match>>

\* "ret = _numba_kernel(...); if not ret: return None; return (...)"
FmcReturn ==
    /\ pc = "kreturn"
    /\ fret' = IF kret.some THEN Translate(kret, rect) ELSE NoResult
    /\ pc' = IF caller = "region" THEN "wrap" ELSE "returned"
    /\ UNCHANGED <<waitVars, importVars, opsVars, gwVars, matchVars>>
    /\ UNCHANGED <<finderInputs, region, exc, colors, rect, frame, grabs, cands,
                   kernel_calls, kernelLocals, match>>

\* "if not ret: return None; return Match(get_cli().Match(Region(...)._raw, ret[1]))"
RegionWrap ==
    /\ pc = "wrap"
    /\ match' = IF fret.some
                THEN [some |-> TRUE, x |-> fret.x, y |-> fret.y, w |-> fret.w,
                      h |-> fret.h, sim |-> fret.sim]
                ELSE NoResult
    /\ pc' = "returned"
    /\ UNCHANGED <<waitVars, importVars, opsVars, gwVars, matchVars>>
    /\ UNCHANGED <<finderInputs, region, finderLocals, kernelLocals>>

\* ------------------------------------------------------- _numba_kernel
\* "for main_i in range(num_cands)": the next candidate, or "return None".
KernelCand ==
    /\ pc = "cand"
    /\ IF main_i >= Len(cands)
       THEN /\ kret' = NoKernelResult
            /\ pc' = "kreturn"
            /\ UNCHANGED <<match_score_sum, sub_i>>
       ELSE /\ match_score_sum' = ScoreUnit
            /\ sub_i' = 0
            /\ pc' = IF NumSub = 0 THEN "decide" ELSE "sub"
            /\ UNCHANGED kret
    /\ UNCHANGED <<waitVars, importVars, opsVars, gwVars, matchVars>>
    /\ UNCHANGED <<finderInputs, region, finderLocals, main_i, offs, last_read, match>>

\* One iteration of "for sub_i in range(len_sub_colors)"; sub_i counts the
\* iterations done for the current candidate.
KernelSub ==
    /\ pc = "sub"
    /\ LET s == colors.sub_colors[sub_i + 1]
           sub_x == CurCand[2] + s[1]
           sub_y == CurCand[1] + s[2]
           inside == InFrame(sub_x, sub_y, frame.w, frame.h)
           sum == IF inside
                  THEN match_score_sum + Contribution(ImageAt(frame, sub_y, sub_x), s)
                  ELSE match_score_sum
       IN /\ offs' = UpdateOffs(offs, s[1], s[2])
          /\ last_read' = IF inside THEN <<sub_y, sub_x>> ELSE last_read
          /\ match_score_sum' = sum
          /\ sub_i' = sub_i + 1
          /\ pc' = IF EarlyExit(sum, NumSub, sub_i, similarity) \/ sub_i + 1 = NumSub
                   THEN "decide" ELSE "sub"
    /\ UNCHANGED <<waitVars, importVars, opsVars, gwVars, matchVars>>
    /\ UNCHANGED <<finderInputs, region, finderLocals, main_i, kret, match>>

\* "similarity = ...; if similarity < similarity_threshold: continue; return (...)"
KernelDecide ==
    /\ pc = "decide"
    /\ IF BelowThreshold(match_score_sum, NumSub, similarity)
       THEN /\ main_i' = main_i + 1
            /\ pc' = "cand"
            /\ UNCHANGED <<kret, last_read>>
       ELSE /\ kret' = [some |-> TRUE,
                        x |-> CurCand[2] + offs.min_x,
                        y |-> CurCand[1] + offs.min_y,
                        w |-> offs.max_x - offs.min_x,
                        h |-> offs.max_y - offs.min_y,
                        sim |-> <<match_score_sum, ScoreUnit * (NumSub + 1)>>,
                        rgb |-> <<frame.px[CurCand][3], frame.px[CurCand][2],
                                  frame.px[CurCand][1]>>]
            /\ last_read' = CurCand
            /\ pc' = "kreturn"
            /\ UNCHANGED main_i
    /\ UNCHANGED <<waitVars, importVars, opsVars, gwVars, matchVars>>
    /\ UNCHANGED <<finderInputs, region, finderLocals, sub_i, match_score_sum, offs, match>>

NextFinder ==
    \/ RegionFindMultiColor
    \/ FmcParse
    \/ FmcRegion
    \/ FmcGrab
    \/ FmcMask
    \/ KernelCand
    \/ KernelSub
    \/ KernelDecide
    \/ FmcReturn
    \/ RegionWrap

SpecFinder == InitFinder /\ [][NextFinder]_vars

\* ====================================================================
\* Region.wait and Region.wait_vanish
\* ====================================================================
\* self._raw.find(target) on the remote engine: a Match, null, a FindFailed
\* (or file-not-found) exception that reaches Python as Py4JJavaError, or a
\* lost connection (Py4JNetworkError).  An image file that does not exist
\* is never located.
FindOutcomes(target) ==
    IF target = "nonexistent" THEN {"Py4JJavaError"}
    ELSE {"match", "null", "Py4JJavaError", "Py4JNetworkError"}

\* Mutant: the comparison of the deadline turned around.
TimedOutReversed(start, timeout, now) == start + timeout > now

\* "current_time + timeout < time.time()"
TimedOut(start, timeout, now) == start + timeout < now

InitWait ==
    /\ w_op \in {"wait", "wait_vanish"}
    /\ w_target \in {"image", "nonexistent"}
    /\ w_timeout \in 0..MaxTimeout
    /\ w_pc = "begin"
    /\ w_clock = 0 /\ w_start = 0 /\ w_attempts = 0 /\ w_last = "none"
    /\ w_ret = "pending" /\ w_exc = "none"
    /\ color_str = <<>> /\ similarity = <<0, 1>> /\ region = <<>> /\ caller = "none"
    /\ self_rect = <<0, 0, 0, 0>> /\ screen = WhiteScreen /\ pc = "idle"
    /\ InitFinderLocals
    /\ IdleImport
    /\ IdleOps
    /\ IdleGw
    /\ IdleMatch

\* "current_time = time.time()"
WaitBegin ==
    /\ w_pc = "begin"
    /\ w_start' = w_clock
    /\ w_pc' = "find"
    /\ UNCHANGED <<w_op, w_target, w_timeout, w_clock, w_attempts, w_last, w_ret, w_exc>>
    /\ UNCHANGED <<finderVars, importVars, opsVars, gwVars, matchVars>>

\* "result = None; with contextlib.suppress(Py4JJavaError): result = self._raw.find(target)"
\* The call takes d tenths of a second.
WaitFind ==
    /\ w_pc = "find"
    /\ \E out \in FindOutcomes(w_target), d \in 0..MaxFindTime :
        /\ w_clock' = w_clock + d
        /\ w_attempts' = w_attempts + 1
        /\ w_last' = out
        /\ IF out = "Py4JNetworkError"
           THEN w_exc' = out /\ w_pc' = "raised"
           ELSE w_exc' = w_exc /\ w_pc' = "check"
    /\ UNCHANGED <<w_op, w_target, w_timeout, w_start, w_ret>>
    /\ UNCHANGED <<finderVars, importVars, opsVars, gwVars, matchVars>>

\* Region.wait: "if result: return Match(result)", the deadline test, "return None"
WaitCheck ==
    /\ w_pc = "check"
    /\ w_op = "wait"
    /\ IF w_last = "match"
       THEN w_ret' = "Match" /\ w_pc' = "done"
       ELSE IF TimedOut(w_start, w_timeout, w_clock)
       THEN w_ret' = "None" /\ w_pc' = "done"
       ELSE w_ret' = w_ret /\ w_pc' = "sleep"
    /\ UNCHANGED <<w_op, w_target, w_timeout, w_clock, w_start, w_attempts, w_last, w_exc>>
    /\ UNCHANGED <<finderVars, importVars, opsVars, gwVars, matchVars>>

\* Region.wait_vanish: "if not result: return True", the deadline test, "return False"
VanishCheck ==
    /\ w_pc = "check"
    /\ w_op = "wait_vanish"
    /\ IF w_last # "match"
       THEN w_ret' = "True" /\ w_pc' = "done"
       ELSE IF TimedOut(w_start, w_timeout, w_clock)
       THEN w_ret' = "False" /\ w_pc' = "done"
       ELSE w_ret' = w_ret /\ w_pc' = "sleep"
    /\ UNCHANGED <<w_op, w_target, w_timeout, w_clock, w_start, w_attempts, w_last, w_exc>>
    /\ UNCHANGED <<finderVars, importVars, opsVars, gwVars, matchVars>>

\* "time.sleep(0.2)": at least 0.2 s pass.
WaitSleep ==
    /\ w_pc = "sleep"
    /\ \E extra \in 0..MaxOversleep : w_clock' = w_clock + SleepTime + extra
    /\ w_pc' = "find"
    /\ UNCHANGED <<w_op, w_target, w_timeout, w_start, w_attempts, w_last, w_ret, w_exc>>
    /\ UNCHANGED <<finderVars, importVars, opsVars, gwVars, matchVars>>

NextWait ==
    \/ WaitBegin
    \/ WaitFind
    \/ WaitCheck
    \/ VanishCheck
    \/ WaitSleep

SpecWait == InitWait /\ [][NextWait]_vars

\* A call that is running keeps running: the interpreter executes the
\* next statement of the loop.
SpecWaitFair == SpecWait /\ WF_vars(NextWait)

\* C9: Region.wait makes at least one find attempt even with timeout 0,
\* returns a Match as soon as an attempt finds the target, never lets a
\* failed find out as an exception, returns None once an attempt has failed
\* after the timeout has elapsed, and so ends with None when the target
\* never appears.
C9_WaitOutcome ==
    /\ [](w_op = "wait" =>
            /\ w_pc \in {"done", "raised"} => w_attempts >= 1
            /\ w_ret = "Match" <=> (w_pc = "done" /\ w_last = "match")
            /\ w_pc = "raised" => w_last = "Py4JNetworkError" /\ w_exc = w_last
            /\ w_last # "Py4JNetworkError" => w_exc = "none"
            /\ w_ret = "None" =>
                /\ w_pc = "done"
                /\ w_last \in {"null", "Py4JJavaError"}
                /\ w_clock > w_start + w_timeout
            /\ w_pc = "sleep" => w_clock <= w_start + w_timeout)
    /\ [][(w_op = "wait" /\ w_pc = "check" /\ w_last = "match") => w_ret' = "Match"]_vars
    /\ (w_op = "wait") ~> (w_pc \in {"done", "raised"})
    /\ (w_op = "wait" /\ w_target = "nonexistent") ~> (w_pc = "done" /\ w_ret = "None")

C9_Witness ==
    /\ w_op = "wait" /\ w_timeout = 0 /\ w_pc = "done" /\ w_ret = "None"
    /\ w_attempts = 2 /\ w_last = "Py4JJavaError"

\* C10: Region.wait_vanish with a timeout, on a target no find attempt
\* locates (an image file that does not exist), returns False when the
\* timeout is reached.
C10_VanishTimeoutFalse ==
    (w_op = "wait_vanish" /\ w_target = "nonexistent" /\ w_pc = "done") => w_ret = "False"

\* ====================================================================
\* Loading the package
\* ====================================================================
\* The module-level statements of each module, in source order: the imports
\* from modules of the package and the names the module binds.
From(m, n) == [op |-> "from", mod |-> m, name |-> n]
Def(n) == [op |-> "def", mod |-> "", name |-> n]

BodyInit ==
    <<Def("__version__"), From("app", "App"), From("client", "reg_exit_listener"),
      From("keys", "Btn"), From("keys", "Key"), From("location", "Location"),
      From("pattern", "Pattern"), From("region", "Match"), From("region", "Region"),
      From("screen", "Screen"), From("settings", "Setting"), Def("__all__")>>
BodyApp == <<From("client", "CLIENT"), From("region", "Region"), Def("App")>>
BodyClient ==
    <<Def("logger"), Def("SikuliXClient"), Def("_G_SKL_CLI"), Def("get_cli"),
      Def("reg_exit_listener")>>
BodyKeys == <<From("client", "get_cli"), Def("LazyProperty"), Def("Key"), Def("Btn")>>
BodyLocation == <<From("client", "CLIENT"), Def("Location")>>
BodyPattern == <<From("client", "CLIENT"), From("location", "Location"), Def("Pattern")>>
BodyRegion ==
    <<From("client", "get_cli"), From("keys", "Btn"), From("location", "Location"),
      From("pattern", "Pattern"), Def("logger"), Def("Region"), Def("Match"),
      Def("ObserveEvent")>>
BodyScreen == <<From("client", "get_cli"), From("region", "Region"), Def("logger"),
                Def("Screen")>>
BodySettings == <<From("client", "CLIENT"), Def("logger"), Def("Setting")>>
BodyGateway == <<Def("logger"), Def("find_jar"), Def("SikuliXGateway"), Def("main")>>

Modules == {"py_sikulix", "app", "client", "keys", "location", "pattern", "region",
            "screen", "settings", "gateway"}
Body(m) ==
    CASE m = "py_sikulix" -> BodyInit
      [] m = "app" -> BodyApp
      [] m = "client" -> BodyClient
      [] m = "keys" -> BodyKeys
      [] m = "location" -> BodyLocation
      [] m = "pattern" -> BodyPattern
      [] m = "region" -> BodyRegion
      [] m = "screen" -> BodyScreen
      [] m = "settings" -> BodySettings
      [] m = "gateway" -> BodyGateway

\* What a program may import: the package, or one of its modules (the
\* package is then imported first).
ImportTargets == {"py_sikulix", "keys", "region", "client", "gateway"}

StackModules == {i_stack[k][1] : k \in 1..Len(i_stack)}

InitImport ==
    /\ i_target = "none" /\ i_attempts = 0
    /\ i_status = [m \in Modules |-> "unloaded"]
    /\ i_ns = [m \in Modules |-> {}]
    /\ i_stack = <<>> /\ i_exc = "none"
    /\ color_str = <<>> /\ similarity = <<0, 1>> /\ region = <<>> /\ caller = "none"
    /\ self_rect = <<0, 0, 0, 0>> /\ screen = WhiteScreen /\ pc = "idle"
    /\ InitFinderLocals
    /\ IdleWait
    /\ IdleOps
    /\ IdleGw
    /\ IdleMatch

\* The module whose body an import of target t starts to execute: the
\* package when it is not loaded, else the module itself, else nothing.
FirstToLoad(t, status) ==
    IF status["py_sikulix"] # "loaded" THEN <<"py_sikulix">>
    ELSE IF status[t] # "loaded" THEN <<t>>
    ELSE <<>>

\* An import statement of the running program (a test, a script).
ImportBegin ==
    /\ i_stack = <<>>
    /\ i_attempts < MaxImports
    /\ \E t \in ImportTargets :
        LET first == FirstToLoad(t, i_status)
        IN /\ i_target' = t
           /\ i_stack' = [k \in 1..Len(first) |-> <<first[k], 1>>]
           /\ i_status' = [m \in Modules |->
                             IF first = <<m>> THEN "loading" ELSE i_status[m]]
    /\ i_attempts' = i_attempts + 1
    /\ i_exc' = "none"
    /\ UNCHANGED i_ns
    /\ UNCHANGED <<finderVars, waitVars, opsVars, gwVars, matchVars>>

\* "from <mod> import <name>" finds the name in the namespace of the module.
NameBound(ns, mod, name) == name \in ns[mod]

\* One step of the module on top of the stack: the end of its body, a
\* binding, or an import (entering the module imported, binding the name,
\* or ImportError, which unwinds every module being loaded).
ExecStatement ==
    /\ i_stack # <<>>
    /\ LET top == i_stack[Len(i_stack)]
           m == top[1]
           k == top[2]
           below == SubSeq(i_stack, 1, Len(i_stack) - 1)
           advance == below \o <<(<<m, k + 1>>)>>
       IN IF k > Len(Body(m))
          THEN LET status == [i_status EXCEPT ![m] = "loaded"]
                   next == IF below = <<>> THEN FirstToLoad(i_target, status) ELSE <<>>
               IN /\ i_status' = [x \in Modules |->
                                    IF next = <<x>> THEN "loading" ELSE status[x]]
                  /\ i_stack' = below \o [j \in 1..Len(next) |-> <<next[j], 1>>]
                  /\ UNCHANGED <<i_ns, i_exc>>
          ELSE LET st == Body(m)[k]
               IN IF st.op = "def"
                  THEN /\ i_ns' = [i_ns EXCEPT ![m] = @ \cup {st.name}]
                       /\ i_stack' = advance
                       /\ UNCHANGED <<i_status, i_exc>>
                  ELSE IF i_status[st.mod] = "unloaded"
                  THEN /\ i_status' = [i_status EXCEPT ![st.mod] = "loading"]
                       /\ i_stack' = i_stack \o <<(<<st.mod, 1>>)>>
                       /\ UNCHANGED <<i_ns, i_exc>>
                  ELSE IF NameBound(i_ns, st.mod, st.name)
                  THEN /\ i_ns' = [i_ns EXCEPT ![m] = @ \cup {st.name}]
                       /\ i_stack' = advance
                       /\ UNCHANGED <<i_status, i_exc>>
                  ELSE /\ i_exc' = "ImportError"
                       /\ i_status' = [x \in Modules |->
                                         IF x \in StackModules THEN "unloaded"
                                         ELSE i_status[x]]
                       /\ i_ns' = [x \in Modules |->
                                     IF x \in StackModules THEN {} ELSE i_ns[x]]
                       /\ i_stack' = <<>>
    /\ UNCHANGED <<i_target, i_attempts>>
    /\ UNCHANGED <<finderVars, waitVars, opsVars, gwVars, matchVars>>

NextImport ==
    \/ ImportBegin
    \/ ExecStatement

SpecImport == InitImport /\ [][NextImport]_vars

ImportFinished == i_attempts > 0 /\ i_stack = <<>>

\* C8: importing the package (and its Region, Screen, Pattern, Key, Btn
\* names) succeeds, and no SikuliXClient is constructed at import time.
C8_ImportSucceeds ==
    ImportFinished =>
        /\ i_exc = "none"
        /\ i_status["py_sikulix"] = "loaded"
        /\ {"Region", "Screen", "Pattern", "Key", "Btn"} \subseteq i_ns["py_sikulix"]

\* ====================================================================
\* Properties of the colour finder
\* ====================================================================
\* The statements below restate the documented behaviour with their own
\* definitions; they use the model's state only.

\* A sample point s "matches" at anchor a = <<y, x>> of frame f.
SampleInside(f, a, s) ==
    /\ a[2] + s[1] \in 0..(f.w - 1)
    /\ a[1] + s[2] \in 0..(f.h - 1)
SampleDiff(f, a, s, ch) == Abs(f.px[<<a[1] + s[2], a[2] + s[1]>>][ch] - s[2 + ch])
SampleMatches(f, a, s) ==
    /\ SampleInside(f, a, s)
    /\ \A ch \in 1..3 : SampleDiff(f, a, s, ch) <= s[5 + ch]
\* 765 * (1 - (|dB| + |dG| + |dR|) / 765) for a match, 0 otherwise
SampleScore(f, a, s) ==
    IF SampleMatches(f, a, s)
    THEN 765 - (SampleDiff(f, a, s, 1) + SampleDiff(f, a, s, 2) + SampleDiff(f, a, s, 3))
    ELSE 0
RECURSIVE FullScore(_, _, _)
FullScore(f, a, subs) ==
    IF subs = <<>> THEN 765
    ELSE SampleScore(f, a, Head(subs)) + FullScore(f, a, Tail(subs))

KernelDone == pc \in {"kreturn", "wrap", "returned"} /\ kernel_calls > 0
Accepted == KernelDone /\ kret.some

\* C1: whenever the kernel (and so find_multi_color) returns a match, the
\* accepted anchor's ratio (1 + sum of all sample contributions) / (N + 1)
\* is at least the threshold, and the similarity returned is that ratio.
C1_AcceptedRatio ==
    Accepted =>
        LET full == FullScore(frame, CurCand, colors.sub_colors)
            total == 765 * (NumSub + 1)
        IN /\ full * similarity[2] >= similarity[1] * total
           /\ kret.sim[1] * total = full * kret.sim[2]
           /\ fret.some => fret.sim[1] * total = full * fret.sim[2]

C1_Witness ==
    /\ pc = "returned" /\ fret.some /\ NumSub = 2
    /\ FullScore(frame, CurCand, colors.sub_colors) \notin {765, 2 * 765, 3 * 765}

\* C2: the candidates handed to the kernel are exactly the pixels of the
\* frame with every channel in [max(0, main - bias), min(255, main + bias)];
\* with no such pixel find_multi_color returns None and the kernel is not run.
ClaimCandidates ==
    {p \in Coords(frame.w, frame.h) :
        \A ch \in 1..3 :
            /\ frame.px[p][ch] >= Max(0, colors.main_bgr[ch] - colors.main_bias[ch])
            /\ frame.px[p][ch] <= Min(255, colors.main_bgr[ch] + colors.main_bias[ch])}
C2_CandidatesExact ==
    pc \in {"cand", "sub", "decide", "kreturn", "wrap", "returned"} =>
        /\ {cands[i] : i \in 1..Len(cands)} = ClaimCandidates
        /\ Len(cands) = Cardinality(ClaimCandidates)
        /\ ClaimCandidates = {} => kernel_calls = 0 /\ ~fret.some /\ pc \in {"wrap", "returned"}
        /\ ClaimCandidates # {} => kernel_calls = 1

C2_Witness ==
    /\ pc = "cand"
    /\ Len(cands) > 0
    /\ Len(cands) < frame.w * frame.h

\* C3: the anchor contributes exactly 1; a sample point contributes
\* 1 - (|dB| + |dG| + |dR|) / 765 when inside the frame and within every
\* channel's tolerance, and 0 otherwise; every contribution is in [0, 1]
\* and the ratio of an anchor is in [1 / (N + 1), 1].
C3_Contributions ==
    /\ [][(pc = "cand" /\ pc' # "kreturn") => match_score_sum' = 765]_vars
    /\ [][pc = "sub" =>
            /\ match_score_sum' - match_score_sum
                 = SampleScore(frame, CurCand, colors.sub_colors[sub_i + 1])
            /\ match_score_sum' - match_score_sum \in 0..765]_vars
    /\ [](pc = "decide" =>
            /\ match_score_sum >= 765
            /\ match_score_sum <= 765 * (NumSub + 1))

C3_Witness ==
    /\ pc = "decide"
    /\ match_score_sum > 765
    /\ match_score_sum % 765 # 0
    /\ \E i \in 1..NumSub : ~SampleInside(frame, CurCand, colors.sub_colors[i])

\* The bounding box of the anchor and of the offsets in offsetSet (pairs
\* <<offset_x, offset_y>>): its corner relative to the anchor, and its
\* extent (largest minus smallest coordinate).
SetMin(S) == CHOOSE v \in S : \A u \in S : v <= u
SetMax(S) == CHOOSE v \in S : \A u \in S : v >= u
BoxOf(a, offsetSet) ==
    LET xs == {0} \cup {o[1] : o \in offsetSet}
        ys == {0} \cup {o[2] : o \in offsetSet}
    IN [x |-> a[2] + SetMin(xs), y |-> a[1] + SetMin(ys),
        w |-> SetMax(xs) - SetMin(xs), h |-> SetMax(ys) - SetMin(ys)]
KretBox == [x |-> kret.x, y |-> kret.y, w |-> kret.w, h |-> kret.h]
AllOffsets == {<<colors.sub_colors[i][1], colors.sub_colors[i][2]>> : i \in 1..NumSub}
MatchedOffsets ==
    {<<colors.sub_colors[i][1], colors.sub_colors[i][2]>> :
        i \in {j \in 1..NumSub : SampleMatches(frame, CurCand, colors.sub_colors[j])}}

C5_ReturnsAnchor == Accepted => kret.x = CurCand[2] /\ kret.y = CurCand[1]

\* C6: find_multi_color returns the kernel's box moved by the region's
\* (left, top), size and similarity unchanged; Region.find_multi_color
\* passes its own (x, y, w, h) and wraps exactly that box and score into its
\* Match, and returns None when the finder returns None.
ClaimLeft == IF region = <<>> THEN 0 ELSE region[1]
ClaimTop == IF region = <<>> THEN 0 ELSE region[2]
HexChars == {"0", "1", "2", "3", "4", "5", "6", "7", "8", "9", "a", "b", "c", "d", "e", "f"}
DecChars == {"0", "1", "2", "3", "4", "5", "6", "7", "8", "9"}
IsDecimal(tok) ==
    LET body == IF Len(tok) > 0 /\ tok[1] \in {"-", "+"} THEN Tail(tok) ELSE tok
    IN Len(body) > 0 /\ \A i \in 1..Len(body) : body[i] \in DecChars
IsHexColor(tok) == Len(tok) = 6 /\ \A i \in 1..6 : tok[i] \in HexChars
WellFormedEntry(e) ==
    /\ Len(e) >= 3
    /\ IsDecimal(e[1]) /\ IsDecimal(e[2])
    /\ IsHexColor(e[3])
    /\ (Len(e) >= 4 /\ Len(e[4]) = 6) => IsHexColor(e[4])
NoValidSample == \A i \in 2..Len(color_str) : ~WellFormedEntry(color_str[i])
C7_NoSampleRaises ==
    NoValidSample =>
        /\ grabs = 0 /\ kernel_calls = 0
        /\ ~fret.some /\ ~kret.some /\ ~match.some
        /\ pc \in {"region_call", "start", "raised"}
        /\ pc = "raised" => exc = "ValueError"

C7_Witness ==
    /\ pc = "raised" /\ exc = "ValueError" /\ grabs = 0
    /\ Len(color_str) = 3
    /\ _rgb_to_bgr(color_str[1][1]).ok
    /\ NoValidSample

\* ====================================================================
\* The wrappers over the remote engine: get_cli, Region, Match, Setting
\* ====================================================================
\* No finder call is running.
IdleFinder ==
    /\ color_str = <<>> /\ similarity = <<0, 1>> /\ region = <<>> /\ caller = "none"
    /\ self_rect = <<0, 0, 0, 0>> /\ screen = WhiteScreen /\ pc = "idle"
    /\ InitFinderLocals

\* One remote call: the method, the arguments marshalled to it, what came
\* back (a value, or the exception py4j raised).
Call(m, a, out) == [method |-> m, args |-> a, out |-> out]

Exceptions == {"Py4JNetworkError", "Py4JJavaError", "Py4JError"}
IsExc(out) == out \in Exceptions

\* What a program passes as psmrl: None, an empty string, an image path,
\* a wrapper object (Location, Pattern, Region, Match), a bare number.
Psmrls == {"None", "empty", "image", "wrapper", "number"}

\* Region._handle_psmrl: "if not psmrl: return", a str to an absolute path,
\* an object with _raw to its remote handle, anything else as it is.
_handle_psmrl(p) ==
    CASE p \in {"None", "empty"} -> "null"
      [] p = "image" -> "path"
      [] p = "wrapper" -> "raw"
      [] OTHER -> p

\* What a remote action method answers: with the gateway unreachable py4j
\* raises Py4JNetworkError; an argument no overload accepts is Py4JError;
\* otherwise 1, 0, nothing, or a FindFailed that arrives as Py4JJavaError.
ActionOutcomes(gw, args) ==
    IF gw = "down" THEN {"Py4JNetworkError"}
    ELSE IF \E k \in 1..Len(args) : args[k] = "number" THEN {"Py4JError"}
    ELSE {"1", "0", "null", "Py4JJavaError"}

\* What a remote search (find, exists) answers.
SearchOutcomes(gw, method) ==
    IF gw = "down" THEN {"Py4JNetworkError"}
    ELSE IF method = "exists" THEN {"match", "null"}
    ELSE {"match", "Py4JJavaError"}

\* What a remote getter of an object, or a lookup of a constant, answers.
ObjectOutcomes(gw) == IF gw = "down" THEN {"Py4JNetworkError"} ELSE {"object"}

IntRet(n) == [kind |-> "int", val |-> n]
NoneRet == [kind |-> "None", val |-> 0]
\* a local wrapper of the named class / the remote handle itself
WrapperRet(cls) == [kind |-> cls, val |-> 1]
RawRet == [kind |-> "JavaObject", val |-> 1]

\* What py4j hands back for a remote int result.
RemoteValue(out) ==
    CASE out = "1" -> IntRet(1)
      [] out = "0" -> IntRet(0)
      [] OTHER -> NoneRet

\* "return int(result) if result is not None else 0" inside
\* "try: ... except Exception: return 0"
GuardedInt(out) ==
    IF IsExc(out) THEN IntRet(0)
    ELSE IF out = "null" THEN IntRet(0)
    ELSE RemoteValue(out)

\* The frame every call of a program shares: one more call made, the
\* gateway, the client and the setting left alone unless said otherwise.
OpDone(name, p, a, calls, ret, e) ==
    /\ o_op' = [name |-> name, psmrl |-> p, arg |-> a]
    /\ o_calls' = calls
    /\ o_ret' = ret
    /\ o_exc' = e
    /\ o_n' = o_n + 1
    /\ UNCHANGED <<finderVars, waitVars, importVars, gwVars, matchVars>>

\* A forwarding method without try/except: the value comes back as py4j
\* gives it, an exception propagates.
Unguarded(name, p, a, method, args) ==
    \E out \in ActionOutcomes(o_gateway, args) :
        OpDone(name, p, a, <<Call(method, args, out)>>,
               IF IsExc(out) THEN Pending ELSE RemoteValue(out),
               IF IsExc(out) THEN out ELSE "none")

\* A forwarding method wrapped in try/except.
Guarded(name, p, a, method, args) ==
    \E out \in ActionOutcomes(o_gateway, args) :
        OpDone(name, p, a, <<Call(method, args, out)>>, GuardedInt(out), "none")

\* The remote arguments of a method that takes an optional target and an
\* optional key.
TargetArgs(t, key) ==
    (IF t = "null" THEN <<>> ELSE <<t>>) \o (IF key = "None" THEN <<>> ELSE <<key>>)

InitOps ==
    /\ IdleOps
    /\ IdleFinder
    /\ IdleWait
    /\ IdleImport
    /\ IdleGw
    /\ IdleMatch

\* The gateway process comes up or goes away.
GatewayChange ==
    /\ o_gateway' = IF o_gateway = "up" THEN "down" ELSE "up"
    /\ UNCHANGED <<o_cli, o_constructed, o_throw, o_op, o_calls, o_ret, o_exc, o_n>>
    /\ UNCHANGED <<finderVars, waitVars, importVars, gwVars, matchVars>>

\* Mutant: a client constructed on every call.
NeedsClientAlways(cli) == TRUE

\* "if _G_SKL_CLI is None"
NeedsClient(cli) == cli = 0

\* get_cli(): "_G_SKL_CLI = SikuliXClient()" when the global is None, then
\* "return _G_SKL_CLI".  SikuliXClient.__init__ looks the SikuliX classes up
\* on the gateway and raises Py4JNetworkError when it cannot be reached;
\* the assignment then never happens.
get_cli ==
    /\ o_n < MaxOps
    /\ IF NeedsClient(o_cli)
       THEN IF o_gateway = "up"
            THEN /\ o_constructed' = o_constructed + 1
                 /\ o_cli' = o_constructed + 1
                 /\ OpDone("get_cli", "None", "None",
                           <<Call("SikuliXClient", <<>>, "object")>>,
                           [kind |-> "client", val |-> o_constructed + 1], "none")
            ELSE /\ UNCHANGED <<o_cli, o_constructed>>
                 /\ OpDone("get_cli", "None", "None",
                           <<Call("SikuliXClient", <<>>, "Py4JNetworkError")>>,
                           Pending, "Py4JNetworkError")
       ELSE /\ UNCHANGED <<o_cli, o_constructed>>
            /\ OpDone("get_cli", "None", "None", <<>>,
                      [kind |-> "client", val |-> o_cli], "none")
    /\ UNCHANGED <<o_gateway, o_throw>>

\* A Region (or Match) object holds a remote handle, which only a client
\* can have produced.
HasRegion == o_cli # 0 /\ o_n < MaxOps

\* Region.click
RegionClick ==
    /\ HasRegion
    /\ \E p \in Psmrls, key \in {"None", "key"} :
        Guarded("click", p, key, "click", TargetArgs(_handle_psmrl(p), key))
    /\ UNCHANGED <<o_gateway, o_cli, o_constructed, o_throw>>

\* Region.double_click
RegionDoubleClick ==
    /\ HasRegion
    /\ \E p \in Psmrls, key \in {"None", "key"} :
        Unguarded("double_click", p, key, "doubleClick", TargetArgs(_handle_psmrl(p), key))
    /\ UNCHANGED <<o_gateway, o_cli, o_constructed, o_throw>>

\* Region.right_click
RegionRightClick ==
    /\ HasRegion
    /\ \E p \in Psmrls, key \in {"None", "key"} :
        Unguarded("right_click", p, key, "rightClick", TargetArgs(_handle_psmrl(p), key))
    /\ UNCHANGED <<o_gateway, o_cli, o_constructed, o_throw>>

\* Region.hover (BaseRegion.hover has the same body):
\* "if psmrl is None: self._raw.hover()" and then, in every case,
\* "return self._raw.hover(psmrl)".
RegionHover ==
    /\ HasRegion
    /\ \E p \in Psmrls :
        LET t == _handle_psmrl(p) IN
        IF t = "null"
        THEN \E out1 \in ActionOutcomes(o_gateway, <<>>) :
                IF IsExc(out1)
                THEN OpDone("hover", p, "None", <<Call("hover", <<>>, out1)>>, Pending, out1)
                ELSE \E out2 \in ActionOutcomes(o_gateway, <<t>>) :
                        OpDone("hover", p, "None",
                               <<Call("hover", <<>>, out1), Call("hover", <<t>>, out2)>>,
                               IF IsExc(out2) THEN Pending ELSE RemoteValue(out2),
                               IF IsExc(out2) THEN out2 ELSE "none")
        ELSE Unguarded("hover", p, "None", "hover", <<t>>)
    /\ UNCHANGED <<o_gateway, o_cli, o_constructed, o_throw>>

\* Region.mouse_down: "self._raw.mouseDown(button) if button else self._raw.mouseDown()"
RegionMouseDown ==
    /\ HasRegion
    /\ \E button \in {"None", "button"} :
        Guarded("mouse_down", "None", button, "mouseDown", TargetArgs("null", button))
    /\ UNCHANGED <<o_gateway, o_cli, o_constructed, o_throw>>

\* Region.mouse_up
RegionMouseUp ==
    /\ HasRegion
    /\ \E button \in {"None", "button"} :
        Guarded("mouse_up", "None", button, "mouseUp", TargetArgs("null", button))
    /\ UNCHANGED <<o_gateway, o_cli, o_constructed, o_throw>>

\* Region.wheel: "if direction is None: direction = Btn.WHEEL_DOWN" comes
\* before the try; Btn.WHEEL_DOWN is get_cli().Button.WHEEL_DOWN, a lookup
\* on the gateway.  Inside the try, psmrl None gives wheel(direction, steps)
\* and anything else wheel(_handle_psmrl(psmrl), direction, steps).
RegionWheel ==
    /\ HasRegion
    /\ \E p \in Psmrls, direction \in {"None", "direction"} :
        LET args == (IF p = "None" THEN <<>> ELSE <<_handle_psmrl(p)>>) \o <<"direction", "steps">>
        IN
        IF direction = "None"
        THEN \E look \in ObjectOutcomes(o_gateway) :
                IF IsExc(look)
                THEN OpDone("wheel", p, direction,
                            <<Call("Button.WHEEL_DOWN", <<>>, look)>>, Pending, look)
                ELSE \E out \in ActionOutcomes(o_gateway, args) :
                        OpDone("wheel", p, direction,
                               <<Call("Button.WHEEL_DOWN", <<>>, look), Call("wheel", args, out)>>,
                               GuardedInt(out), "none")
        ELSE Guarded("wheel", p, direction, "wheel", args)
    /\ UNCHANGED <<o_gateway, o_cli, o_constructed, o_throw>>

\* Region.type
RegionType ==
    /\ HasRegion
    /\ \E p \in Psmrls :
        LET t == _handle_psmrl(p) IN
        Unguarded("type", p, "text", "type", (IF t = "null" THEN <<>> ELSE <<t>>) \o <<"text">>)
    /\ UNCHANGED <<o_gateway, o_cli, o_constructed, o_throw>>

\* Region.key_down / Region.key_up: a list of keys is first copied into a
\* remote ArrayList (get_cli().list2java_array), inside the try.
KeyOp(name, method) ==
    \E keys \in {"str", "list"} :
        IF keys = "list"
        THEN \E conv \in ObjectOutcomes(o_gateway) :
                IF IsExc(conv)
                THEN OpDone(name, "None", keys, <<Call("ArrayList", <<>>, conv)>>,
                            IntRet(0), "none")
                ELSE \E out \in ActionOutcomes(o_gateway, <<"array">>) :
                        OpDone(name, "None", keys,
                               <<Call("ArrayList", <<>>, conv), Call(method, <<"array">>, out)>>,
                               GuardedInt(out), "none")
        ELSE Guarded(name, "None", keys, method, <<"keys">>)

RegionKeyDown ==
    /\ HasRegion
    /\ KeyOp("key_down", "keyDown")
    /\ UNCHANGED <<o_gateway, o_cli, o_constructed, o_throw>>

RegionKeyUp ==
    /\ HasRegion
    /\ KeyOp("key_up", "keyUp")
    /\ UNCHANGED <<o_gateway, o_cli, o_constructed, o_throw>>

\* The keyword arguments a call of exists may carry.
ExistsParams == {"target"}

\* Region.exists(self, target): a call with a keyword the signature does
\* not have is a TypeError before the body runs; otherwise
\* "result = self._raw.exists(target); return Match(result) if result else None".
RegionExists ==
    /\ HasRegion
    /\ \E target \in {"image", "nonexistent"}, kw \in {"None", "timeout"} :
        IF kw # "None" /\ kw \notin ExistsParams
        THEN OpDone("exists", target, kw, <<>>, Pending, "TypeError")
        ELSE \E out \in (IF target = "nonexistent"
                         THEN SearchOutcomes(o_gateway, "exists") \ {"match"}
                         ELSE SearchOutcomes(o_gateway, "exists")) :
                OpDone("exists", target, kw, <<Call("exists", <<"path">>, out)>>,
                       IF IsExc(out) THEN Pending
                       ELSE IF out = "match" THEN WrapperRet("Match") ELSE NoneRet,
                       IF IsExc(out) THEN out ELSE "none")
    /\ UNCHANGED <<o_gateway, o_cli, o_constructed, o_throw>>

\* Region.find: "try: result = self._raw.find(target)
\* except Py4JJavaError: return None" and "return Match(result)".
RegionFind ==
    /\ HasRegion
    /\ \E target \in {"image", "nonexistent"} :
        \E out \in (IF target = "nonexistent"
                    THEN SearchOutcomes(o_gateway, "find") \ {"match"}
                    ELSE SearchOutcomes(o_gateway, "find")) :
            OpDone("find", target, "None", <<Call("find", <<"path">>, out)>>,
                   IF out = "match" THEN WrapperRet("Match")
                   ELSE IF out = "Py4JJavaError" THEN NoneRet ELSE Pending,
                   IF out = "Py4JNetworkError" THEN out ELSE "none")
    /\ UNCHANGED <<o_gateway, o_cli, o_constructed, o_throw>>

\* Setting.throw_exception = value
SetThrowException ==
    /\ o_n < MaxOps
    /\ \E value \in BOOLEAN :
        /\ o_throw' = value
        /\ OpDone("throw_exception", "None", IF value THEN "True" ELSE "False",
                  <<>>, NoneRet, "none")
    /\ UNCHANGED <<o_gateway, o_cli, o_constructed>>

\* Region.get_center (the corner getters have the same shape):
\* "return Location(self._raw.getCenter())"
RegionGetCenter ==
    /\ HasRegion
    /\ \E out \in ObjectOutcomes(o_gateway) :
        OpDone("get_center", "None", "None", <<Call("getCenter", <<>>, out)>>,
               IF IsExc(out) THEN Pending ELSE WrapperRet("Location"),
               IF IsExc(out) THEN out ELSE "none")
    /\ UNCHANGED <<o_gateway, o_cli, o_constructed, o_throw>>

\* Match.get_target: "return self._raw.getTarget()"
MatchGetTarget ==
    /\ HasRegion
    /\ \E out \in ObjectOutcomes(o_gateway) :
        OpDone("get_target", "None", "None", <<Call("getTarget", <<>>, out)>>,
               IF IsExc(out) THEN Pending ELSE RawRet,
               IF IsExc(out) THEN out ELSE "none")
    /\ UNCHANGED <<o_gateway, o_cli, o_constructed, o_throw>>

NextOps ==
    \/ GatewayChange
    \/ get_cli
    \/ RegionClick
    \/ RegionDoubleClick
    \/ RegionRightClick
    \/ RegionHover
    \/ RegionMouseDown
    \/ RegionMouseUp
    \/ RegionWheel
    \/ RegionType
    \/ RegionKeyDown
    \/ RegionKeyUp
    \/ RegionExists
    \/ RegionFind
    \/ SetThrowException
    \/ RegionGetCenter
    \/ MatchGetTarget

SpecOps == InitOps /\ [][NextOps]_vars

\* ------------------------------------------------ properties of the wrappers
\* The call reached the engine: no remote call of it failed on the network.
NoNetworkFailure == \A k \in 1..Len(o_calls) : o_calls[k].out # "Py4JNetworkError"

\* C11: Region.exists accepts a timeout keyword; with the engine reachable
\* it raises nothing, returns None for a target that is not found and a
\* Match for one that is.
C11_ExistsTimeout ==
    (o_op.name = "exists" /\ NoNetworkFailure) =>
        /\ o_exc = "none"
        /\ o_ret \in {NoneRet, WrapperRet("Match")}
        /\ o_op.psmrl = "nonexistent" => o_ret = NoneRet

GuardedOps == {"click", "mouse_down", "mouse_up", "wheel", "key_down", "key_up"}

\* C12: click, mouse_down, mouse_up, wheel, key_down and key_up never let an
\* exception out and always return an int: 0 when a conversion, a constant
\* lookup or the remote call failed, and 0 for a remote result of None.
C12_AlwaysInt ==
    o_op.name \in GuardedOps =>
        /\ o_exc = "none"
        /\ o_ret.kind = "int"
        /\ (\E k \in 1..Len(o_calls) : IsExc(o_calls[k].out) \/ o_calls[k].out = "null")
              => o_ret = IntRet(0)

InputOps == GuardedOps \cup {"double_click", "right_click", "hover", "type"}

\* The remote method a wrapper method stands for.
RemoteMethod(name) ==
    CASE name = "click" -> "click"
      [] name = "double_click" -> "doubleClick"
      [] name = "right_click" -> "rightClick"
      [] name = "hover" -> "hover"
      [] name = "mouse_down" -> "mouseDown"
      [] name = "mouse_up" -> "mouseUp"
      [] name = "wheel" -> "wheel"
      [] name = "type" -> "type"
      [] name = "key_down" -> "keyDown"
      [] name = "key_up" -> "keyUp"
      [] OTHER -> "none"

\* C13: an input operation that reaches the engine issues exactly one call
\* of the equivalent remote method; hover with no target (None or empty)
\* issues exactly one remote hover, without a target, and never a remote
\* hover of a null target.
C13_OneForwardingCall ==
    (o_op.name \in InputOps /\ NoNetworkFailure) =>
        /\ Cardinality({k \in 1..Len(o_calls) :
                           o_calls[k].method = RemoteMethod(o_op.name)}) = 1
        /\ (o_op.name = "hover" /\ _handle_psmrl(o_op.psmrl) = "null") =>
              /\ Len(o_calls) = 1
              /\ o_calls[1].args = <<>>

\* C14: a method that returns a remote object hands back the local wrapper:
\* Match.get_target returns a Location wrapper, as get_center does, never
\* the remote handle.
C14_GetTargetWrapped ==
    (o_op.name \in {"get_target", "get_center"} /\ o_exc = "none") =>
        o_ret = WrapperRet("Location")

\* C15: a Region.find whose search fails returns None while
\* Setting.throw_exception is False and raises FindFailed once it has been
\* set to True.
C15_ThrowException ==
    (o_op.name = "find" /\ Len(o_calls) = 1 /\ o_calls[1].out = "Py4JJavaError") =>
        IF o_throw
        THEN o_exc = "FindFailed"
        ELSE o_exc = "none" /\ o_ret = NoneRet

\* C17: get_cli() is a global singleton.  At most one SikuliXClient is ever
\* constructed; the global, once set, never changes; a successful call
\* returns the global; a call raises only when the global was unset and
\* leaves it unset; and a call that finds it unset attempts a construction.
C17_Singleton ==
    /\ [](o_constructed <= 1)
    /\ [][o_cli # 0 => o_cli' = o_cli]_vars
    /\ [][(o_op'.name = "get_cli" /\ o_n' = o_n + 1) =>
            /\ o_exc' = "none" =>
                  /\ o_cli' # 0
                  /\ o_ret' = [kind |-> "client", val |-> o_cli']
            /\ o_exc' # "none" => o_cli = 0 /\ o_cli' = 0
            /\ o_cli = 0 =>
                  /\ Len(o_calls') = 1
                  /\ o_calls'[1].method = "SikuliXClient"
                  /\ o_constructed' = o_constructed + (IF o_exc' = "none" THEN 1 ELSE 0)
            /\ o_cli # 0 => o_calls' = <<>> /\ o_constructed' = o_constructed]_vars

\* A third call that returns the client the second call constructed, after a
\* first call that could not connect.
C17_Witness ==
    /\ o_op.name = "get_cli" /\ o_n = 3
    /\ o_calls = <<>> /\ o_exc = "none"
    /\ o_constructed = 1 /\ o_ret = [kind |-> "client", val |-> 1]

\* ====================================================================
\* The gateway launcher: python -m py_sikulix.gateway <command>
\* ====================================================================
\* Each command-line invocation is a process of its own with its own
\* SikuliXGateway launcher; gateway_process is the handle of the java
\* process that launcher spawned (0 for None).
Invs == 1..MaxInv
Procs == 1..MaxProcs

InitGw ==
    /\ IdleGw
    /\ IdleMatch
    /\ IdleFinder
    /\ IdleWait
    /\ IdleImport
    /\ IdleOps

\* An invocation slot that no running invocation occupies.
FreeInv(i) == g_inv[i].pc \in {"none", "exited"}

\* A process id the system can hand out: of no live process, and held by
\* no launcher.
FreePid(p) ==
    /\ g_procs[p] \in {"none", "exited"}
    /\ \A i \in Invs : g_inv[i].gateway_process # p

\* Popen.poll() is None: the process runs, or it has been sent SIGKILL and
\* has not ended yet.
Alive(st) == st \in {"running", "dying"}

\* SikuliXGateway.test_status: "self.gateway_process and self.gateway_process.poll() is None"
test_status(inv, procs) ==
    inv.gateway_process # 0 /\ Alive(procs[inv.gateway_process])

\* How the wait of stop() ends: the process exits within the timeout, or
\* the wait times out and the process is sent SIGKILL.
StopOutcomes == {"exited", "killed"}

\* SikuliXGateway.stop: nothing without a process handle; otherwise
\* terminate() and wait(timeout), which returns once the process has ended;
\* on TimeoutExpired kill(), which sends the signal and returns without
\* waiting.
stop(inv, procs, how) ==
    IF inv.gateway_process = 0 THEN procs
    ELSE IF ~Alive(procs[inv.gateway_process]) THEN procs
    ELSE [procs EXCEPT ![inv.gateway_process] = IF how = "exited" THEN "exited" ELSE "dying"]

GwFrame == UNCHANGED <<finderVars, waitVars, importVars, opsVars, matchVars>>

\* Mutant: the result of start() without the connection test.
StartResultAlive(alive, connected) == alive

\* SikuliXGateway.start after the sleep: "if self.gateway_process.poll() is None"
\* then "return self.test_connection()", else "return False".
StartResult(alive, connected) == alive /\ connected

\* SikuliXGateway.start up to the one-second sleep, on launcher l of
\* invocation i; back is where the invocation goes on when start returns
\* at once.  "if not self.sikulix_path" looks for the jar; without one
\* start returns False; with one the java process is spawned.
StartBegin(i, l, back) ==
    \E jar \in (IF l.jar THEN {TRUE} ELSE BOOLEAN) :
        IF jar
        THEN \E p \in Procs :
                /\ FreePid(p)
                /\ g_procs' = [g_procs EXCEPT ![p] = "running"]
                /\ g_inv' = [g_inv EXCEPT ![i] =
                        [l EXCEPT !.pc = "sleep", !.gateway_process = p, !.jar = TRUE,
                                  !.ret = "none", !.connected = "untested"]]
        ELSE /\ g_inv' = [g_inv EXCEPT ![i] =
                        [l EXCEPT !.pc = back, !.ret = "False", !.connected = "untested"]]
             /\ UNCHANGED g_procs

\* main() with command 'start', up to the sleep of start().
GwMainStart(i) ==
    /\ FreeInv(i)
    /\ StartBegin(i, Launcher("start", "main"), "loop")
    /\ GwFrame

\* SikuliXGateway.start after the sleep.
GwStartPoll(i) ==
    /\ g_inv[i].pc = "sleep"
    /\ LET alive == test_status(g_inv[i], g_procs)
           back == "loop"
       IN IF alive
          THEN \E connected \in BOOLEAN :
                  g_inv' = [g_inv EXCEPT
                      ![i].pc = back,
                      ![i].connected = IF connected THEN "True" ELSE "False",
                      ![i].ret = IF StartResult(alive, connected) THEN "True" ELSE "False"]
          ELSE g_inv' = [g_inv EXCEPT ![i].pc = back, ![i].ret = "False"]
    /\ UNCHANGED g_procs
    /\ GwFrame

\* main(): "while launcher.test_status(False): time.sleep(1)" ends once the
\* launcher's process no longer runs.
GwMainLoop(i) ==
    /\ g_inv[i].pc = "loop"
    /\ ~test_status(g_inv[i], g_procs)
    /\ g_inv' = [g_inv EXCEPT ![i].pc = "finally"]
    /\ UNCHANGED g_procs
    /\ GwFrame

\* main(): "finally: launcher.stop()", and the invocation ends.
GwMainFinally(i) ==
    /\ g_inv[i].pc = "finally"
    /\ \E how \in StopOutcomes : g_procs' = stop(g_inv[i], g_procs, how)
    /\ g_inv' = [g_inv EXCEPT ![i] = Launcher(g_inv[i].cmd, "exited")]
    /\ GwFrame

\* main() with command 'stop', from beginning to end: a new
\* SikuliXGateway(port), whose gateway_process is None; launcher.stop();
\* the while loop, which test_status ends at once; launcher.stop() again
\* in the finally clause.
GwMainStop(i) ==
    /\ FreeInv(i)
    /\ LET launcher == Launcher("stop", "exited")
       IN /\ \E how \in StopOutcomes :
                g_procs' = stop(launcher, stop(launcher, g_procs, how), how)
          /\ g_inv' = [g_inv EXCEPT ![i] = launcher]
    /\ GwFrame

\* main() with command 'status' or 'test', from beginning to end.
GwMainStatus(i) ==
    /\ FreeInv(i)
    /\ \E cmd \in {"status", "test"} :
        LET launcher == Launcher(cmd, "exited")
        IN /\ \E how \in StopOutcomes : g_procs' = stop(launcher, g_procs, how)
           /\ g_inv' = [g_inv EXCEPT ![i] = launcher]
    /\ GwFrame

\* KeyboardInterrupt in a running invocation: "except KeyboardInterrupt",
\* then the finally clause.
GwInterrupt(i) ==
    /\ g_inv[i].pc \in {"sleep", "loop"}
    /\ g_inv' = [g_inv EXCEPT ![i].pc = "finally"]
    /\ UNCHANGED g_procs
    /\ GwFrame

\* The invocation is terminated from outside (Popen.terminate() in the
\* tests): it ends without running its finally clause.
GwTerminated(i) ==
    /\ g_inv[i].pc \in {"sleep", "loop"}
    /\ g_inv' = [g_inv EXCEPT ![i] = Launcher(g_inv[i].cmd, "exited")]
    /\ UNCHANGED g_procs
    /\ GwFrame

\* A gateway process ends: on its own, or of the SIGKILL it was sent.
GwProcExit(p) ==
    /\ Alive(g_procs[p])
    /\ g_procs' = [g_procs EXCEPT ![p] = "exited"]
    /\ UNCHANGED g_inv
    /\ GwFrame

NextGw ==
    \/ \E i \in Invs : GwMainStart(i)
    \/ \E i \in Invs : GwStartPoll(i)
    \/ \E i \in Invs : GwMainLoop(i)
    \/ \E i \in Invs : GwMainFinally(i)
    \/ \E i \in Invs : GwMainStop(i)
    \/ \E i \in Invs : GwMainStatus(i)
    \/ \E i \in Invs : GwInterrupt(i)
    \/ \E i \in Invs : GwTerminated(i)
    \/ \E p \in Procs : GwProcExit(p)

SpecGw == InitGw /\ [][NextGw]_vars

\* C16: a 'stop' invocation stops the gateway an earlier 'start' invocation
\* launched: no gateway process that was running when 'stop' was invoked is
\* still running when it returns.
C16_StopStopsGateway ==
    [][\A i \in Invs :
          (g_inv'[i] # g_inv[i] /\ g_inv'[i].cmd = "stop" /\ g_inv'[i].pc = "exited") =>
              \A p \in Procs : g_procs[p] = "running" => g_procs'[p] # "running"]_vars

\* C24: start() returns True only if the jar was found, the spawned process
\* was still alive after the one-second wait and the connection test
\* succeeded; a start() that finds no jar returns False, spawns no process
\* and leaves gateway_process None.
C24_StartResult ==
    /\ [](\A i \in Invs :
            g_inv[i].ret = "True" =>
                /\ g_inv[i].jar
                /\ g_inv[i].gateway_process # 0
                /\ g_inv[i].connected = "True")
    /\ [][\A i \in Invs :
            (g_inv[i].ret # "True" /\ g_inv'[i].ret = "True") =>
                /\ g_inv[i].pc = "sleep"
                /\ g_inv[i].gateway_process # 0
                /\ Alive(g_procs[g_inv[i].gateway_process])]_vars
    /\ [][\A i \in Invs :
            (FreeInv(i) /\ g_inv'[i].cmd = "start" /\ g_inv'[i].pc # "exited"
                /\ ~g_inv'[i].jar) =>
                /\ g_inv'[i].ret = "False"
                /\ g_inv'[i].gateway_process = 0
                /\ g_procs' = g_procs]_vars

\* A start() that returned True: jar found, process running, connection
\* test passed.
C24_Witness ==
    \E i \in Invs :
        /\ g_inv[i].cmd = "start" /\ g_inv[i].pc = "loop"
        /\ g_inv[i].ret = "True" /\ g_inv[i].connected = "True"
        /\ g_inv[i].jar
        /\ g_inv[i].gateway_process # 0
        /\ g_procs[g_inv[i].gateway_process] = "running"

\* C25: when stop() returns on a launcher that had started a process, that
\* process no longer runs and test_status() is False, whether the process
\* exited within the timeout or was killed.
C25_StoppedAfterStop ==
    [][\A i \in Invs :
          (g_inv[i].pc = "finally" /\ g_inv[i].gateway_process # 0
              /\ g_inv'[i].pc = "exited") =>
              ~test_status(g_inv[i], g_procs')]_vars

\* ====================================================================
\* The scan of the candidates in _numba_kernel
\* ====================================================================
\* Candidate number k, scanned over all sample points without early exit,
\* has a ratio of at least the threshold.
Qualifies(k) ==
    FullScore(frame, cands[k], colors.sub_colors) * similarity[2]
        >= similarity[1] * ScoreUnit * (NumSub + 1)

\* C18: the early exit never changes the decision.  The candidate under
\* decision is accepted exactly when its full scan reaches the threshold;
\* an accepted candidate had every sample point visited and its similarity
\* is the full-scan ratio.
C18_EarlyExitEquivalent ==
    /\ [][pc = "decide" =>
            /\ pc' = "kreturn" <=> Qualifies(main_i + 1)
            /\ pc' = "kreturn" => kret'.some
            /\ pc' # "kreturn" => pc' = "cand" /\ main_i' = main_i + 1]_vars
    /\ [](Accepted =>
            /\ sub_i = NumSub
            /\ kret.sim[2] = ScoreUnit * (NumSub + 1)
            /\ kret.sim[1] = FullScore(frame, CurCand, colors.sub_colors))

\* The scan of a candidate was cut short with a sample point left unvisited.
C18_Witness ==
    /\ pc = "decide" /\ NumSub = 2 /\ sub_i = 1
    /\ ~Qualifies(main_i + 1)

\* C19: the kernel returns None exactly when no candidate qualifies; else
\* it accepts the first qualifying candidate in candidate order, which is
\* row-major (y, then x), whatever the similarity of later candidates, and
\* after accepting it scans nothing more.
C19_FirstQualifying ==
    /\ [](KernelDone =>
            /\ kret.some <=> \E k \in 1..Len(cands) : Qualifies(k)
            /\ ~kret.some => main_i = Len(cands)
            /\ kret.some =>
                /\ Qualifies(main_i + 1)
                /\ \A k \in 1..main_i : ~Qualifies(k)
                /\ last_read = CurCand
                /\ kret.rgb = <<frame.px[CurCand][3], frame.px[CurCand][2],
                                frame.px[CurCand][1]>>
            /\ \A j, k \in 1..Len(cands) :
                  j < k => \/ cands[j][1] < cands[k][1]
                           \/ cands[j][1] = cands[k][1] /\ cands[j][2] < cands[k][2])
    /\ [][kret.some => UNCHANGED kernelLocals]_vars

\* The first candidate is accepted although a later one scores higher.
C19_Witness ==
    /\ Accepted /\ main_i = 0
    /\ \E k \in 2..Len(cands) :
          FullScore(frame, cands[k], colors.sub_colors)
              > FullScore(frame, CurCand, colors.sub_colors)

\* The x offsets and the y offsets of all the sample points.
OffsetsX == {colors.sub_colors[i][1] : i \in 1..NumSub}
OffsetsY == {colors.sub_colors[i][2] : i \in 1..NumSub}

SamplePos(k) ==
    <<CurCand[1] + colors.sub_colors[k][2], CurCand[2] + colors.sub_colors[k][1]>>

C22_BoxInsideRegion ==
    (pc \in {"wrap", "returned"} /\ fret.some) =>
        /\ rect.left <= fret.x
        /\ rect.top <= fret.y
        /\ fret.x + fret.w <= rect.left + rect.width
        /\ fret.y + fret.h <= rect.top + rect.height

\* The capture area the region argument stands for.
ClaimRect(rg) ==
    CASE Len(rg) = 0 -> <<0, 0, ScreenW, ScreenH>>
      [] Len(rg) \in {2, 3} -> <<rg[1], rg[2], ScreenW - rg[1], ScreenH - rg[2]>>
      [] Len(rg) >= 4 -> <<rg[1], rg[2], rg[3], rg[4]>>
      [] OTHER -> <<>>

\* C23: the capture area comes from the region argument: None or an empty
\* sequence gives the whole monitor, four or more values give the first
\* four, two or three values give (left, top, W - left, H - top), exactly
\* one value raises ValueError before any capture.
C23_RegionArgument ==
    /\ rect.ok =>
        <<rect.left, rect.top, rect.width, rect.height>> = ClaimRect(region)
    /\ grabs > 0 =>
        /\ rect.ok /\ Len(region) # 1 /\ grabs = 1
        /\ frame.w = ClaimRect(region)[3] /\ frame.h = ClaimRect(region)[4]
        /\ \A p \in Coords(frame.w, frame.h) :
              frame.px[p] = screen[<<p[1] + ClaimRect(region)[2], p[2] + ClaimRect(region)[1]>>]
    /\ Len(region) = 1 =>
        /\ pc \in {"start", "region", "raised"}
        /\ pc = "raised" => exc = "ValueError"
        /\ ~rect.ok /\ grabs = 0 /\ frame = NoFrame

\* A region of three values captured as (left, top, W - left, H - top).
C23_Witness ==
    /\ Len(region) = 3 /\ grabs = 1
    /\ frame.w = ScreenW - region[1] /\ frame.h = ScreenH - region[2]
    /\ frame.w < ScreenW

\* ====================================================================
\* Match: the comparison operators
\* ====================================================================
\* The comparisons of Python floats: every comparison with NaN but != is
\* False.
FloatLt(x, y) == ~x.nan /\ ~y.nan /\ x.val < y.val
FloatLe(x, y) == ~x.nan /\ ~y.nan /\ x.val <= y.val
FloatGt(x, y) == ~x.nan /\ ~y.nan /\ x.val > y.val
FloatGe(x, y) == ~x.nan /\ ~y.nan /\ x.val >= y.val
FloatEq(x, y) == ~x.nan /\ ~y.nan /\ x.val = y.val

\* The scores a Match can carry: Match.new_by_score takes any float.
Scores == {Float(n) : n \in 0..MaxScore} \cup {NaN}
Matches == {[cls |-> "Match", score |-> s] : s \in Scores}
\* Objects that are no Match and have no get_score.
NonMatches == {[cls |-> c, score |-> Float(0)] : c \in {"Region", "NoneType"}}

Bool(b) == IF b THEN "True" ELSE "False"

\* isinstance(other, Match)
IsMatch(other) == other.cls = "Match"

\* Match.get_score: the score of the remote match
get_score(self) == self.score

\* Match.__lt__: "return self.get_score() < other.get_score()"; an other
\* without get_score ends the call in AttributeError.
__lt__(self, other) ==
    IF ~IsMatch(other) THEN "AttributeError"
    ELSE Bool(FloatLt(get_score(self), get_score(other)))

\* Mutant: <= computed as <.
LeAsLt(self, other) == __lt__(self, other)

\* Match.__le__
__le__(self, other) ==
    IF ~IsMatch(other) THEN "AttributeError"
    ELSE Bool(FloatLe(get_score(self), get_score(other)))

\* Match.__gt__
__gt__(self, other) ==
    IF ~IsMatch(other) THEN "AttributeError"
    ELSE Bool(FloatGt(get_score(self), get_score(other)))

\* Match.__ge__
__ge__(self, other) ==
    IF ~IsMatch(other) THEN "AttributeError"
    ELSE Bool(FloatGe(get_score(self), get_score(other)))

\* Match.__eq__: ValueError unless other is a Match
__eq__(self, other) ==
    IF ~IsMatch(other) THEN "ValueError"
    ELSE Bool(FloatEq(get_score(self), get_score(other)))

InitMatch ==
    /\ m_a \in Matches
    /\ m_b \in Matches \cup NonMatches
    /\ m_res = [op \in CompareOps |-> Unset]
    /\ IdleFinder
    /\ IdleWait
    /\ IdleImport
    /\ IdleOps
    /\ IdleGw

MatchFrame ==
    UNCHANGED <<m_a, m_b, finderVars, waitVars, importVars, opsVars, gwVars>>

\* a < b
MatchLt ==
    /\ m_res["lt"] = Unset
    /\ m_res' = [m_res EXCEPT !["lt"] = __lt__(m_a, m_b)]
    /\ MatchFrame

\* a <= b
MatchLe ==
    /\ m_res["le"] = Unset
    /\ m_res' = [m_res EXCEPT !["le"] = __le__(m_a, m_b)]
    /\ MatchFrame

\* a > b
MatchGt ==
    /\ m_res["gt"] = Unset
    /\ m_res' = [m_res EXCEPT !["gt"] = __gt__(m_a, m_b)]
    /\ MatchFrame

\* a >= b
MatchGe ==
    /\ m_res["ge"] = Unset
    /\ m_res' = [m_res EXCEPT !["ge"] = __ge__(m_a, m_b)]
    /\ MatchFrame

\* a == b
MatchEq ==
    /\ m_res["eq"] = Unset
    /\ m_res' = [m_res EXCEPT !["eq"] = __eq__(m_a, m_b)]
    /\ MatchFrame

NextMatch ==
    \/ MatchLt
    \/ MatchLe
    \/ MatchGt
    \/ MatchGe
    \/ MatchEq

SpecMatch == InitMatch /\ [][NextMatch]_vars

\* The comparison op has been made and gave True.
Holds(op) == m_res[op] = "True"
Made(ops) == \A op \in ops : m_res[op] # Unset

\* Every comparison of two Matches made so far gave the result of the same
\* comparison of the two scores, and an equality test of a Match with a
\* non-Match ended in ValueError.
MirrorsScores ==
    LET a == m_a.score
        b == m_b.score
        num == ~a.nan /\ ~b.nan
    IN /\ IsMatch(m_b) =>
            /\ Made({"lt"}) => (Holds("lt") <=> (num /\ a.val < b.val))
            /\ Made({"le"}) => (Holds("le") <=> (num /\ a.val <= b.val))
            /\ Made({"gt"}) => (Holds("gt") <=> (num /\ a.val > b.val))
            /\ Made({"ge"}) => (Holds("ge") <=> (num /\ a.val >= b.val))
            /\ Made({"eq"}) => (Holds("eq") <=> (num /\ a.val = b.val))
            /\ \A op \in CompareOps : m_res[op] \in {Unset, "True", "False"}
            /\ Made({"le", "lt", "eq"}) => (Holds("le") <=> (Holds("lt") \/ Holds("eq")))
       /\ (~IsMatch(m_b) /\ Made({"eq"})) => m_res["eq"] = "ValueError"

\* Exactly one of a < b, a == b, a > b gave True.
ExactlyOne ==
    Cardinality({op \in {"lt", "eq", "gt"} : Holds(op)}) = 1

=============================================================================
